---- MODULE Spec2Model ----
(***************************************************************************)
(* Model of lab/lab10/solve_problem.py and lab/lab99/solve_problem.py:     *)
(* the TPFA Darcy solve (solve_problem, both variants) and the             *)
(* permeability generator (generate_perm).                                 *)
(*                                                                         *)
(* Floating-point numbers are modelled as exact rationals <<n, d>> in      *)
(* lowest terms with d >= 0; d = 0 encodes the IEEE specials:              *)
(* <<1,0>> = +inf, <<-1,0>> = -inf, <<0,0>> = NaN.  Rounding is not        *)
(* modelled.                                                               *)
(***************************************************************************)
EXTENDS Integers, Sequences, FiniteSets, TLC

(***************************************************************************)
(* Bounds of the model.                                                    *)
(***************************************************************************)
MaxN == 2          \* grids have 1..MaxN cells per direction
MaxK == 4          \* scalar conductivities are 1..MaxK
MaxSeed == 1       \* supplied seeds are 0..MaxSeed

(***************************************************************************)
(* Rational arithmetic with IEEE specials.                                 *)
(***************************************************************************)
Abs(x) == IF x < 0 THEN -x ELSE x

Sign(x) == IF x < 0 THEN -1 ELSE IF x = 0 THEN 0 ELSE 1

RECURSIVE GcdNat(_, _)
GcdNat(a, b) == IF b = 0 THEN a ELSE GcdNat(b, a % b)

Gcd(a, b) == GcdNat(Abs(a), Abs(b))

Rat(n, d) ==
    IF d = 0 THEN <<Sign(n), 0>>
    ELSE LET g == Gcd(n, d)
             s == Sign(d)
         IN <<s * (n \div g), s * (d \div g)>>

Zero == <<0, 1>>
One == <<1, 1>>
NaN == <<0, 0>>
FromInt(i) == <<i, 1>>

IsNaN(a) == a = NaN
IsFinite(a) == a[2] # 0

Neg(a) == <<-a[1], a[2]>>

Add(a, b) ==
    IF a[2] = 0 /\ b[2] = 0
    THEN (IF a = b THEN a ELSE NaN)
    ELSE IF a[2] = 0 THEN a
    ELSE IF b[2] = 0 THEN b
    ELSE LET g == Gcd(a[2], b[2])
             t == a[1] * (b[2] \div g) + b[1] * (a[2] \div g)
             h == Gcd(t, g)
         IN IF t = 0 THEN Zero
            ELSE <<t \div h, (a[2] \div g) * (b[2] \div h)>>

Sub(a, b) == Add(a, Neg(b))

Mul(a, b) ==
    IF a[2] = 0 \/ b[2] = 0
    THEN Rat(a[1] * b[1], 0)
    ELSE IF a[1] = 0 \/ b[1] = 0 THEN Zero
    ELSE LET g1 == Gcd(a[1], b[2])
             g2 == Gcd(b[1], a[2])
         IN <<(a[1] \div g1) * (b[1] \div g2), (a[2] \div g2) * (b[2] \div g1)>>

Inv(a) == IF a[1] < 0 THEN <<-a[2], -a[1]>> ELSE <<a[2], a[1]>>

Div(a, b) == Mul(a, Inv(b))

\* a < b, a <= b as IEEE comparisons: false when either side is NaN.
Lt(a, b) ==
    /\ ~IsNaN(a) /\ ~IsNaN(b)
    /\ a # b
    /\ IF a[2] = 0 THEN a[1] < 0
       ELSE IF b[2] = 0 THEN b[1] > 0
       ELSE a[1] * b[2] < b[1] * a[2]

Le(a, b) == ~IsNaN(a) /\ ~IsNaN(b) /\ (a = b \/ Lt(a, b))

FAbs(a) == <<Abs(a[1]), a[2]>>

RECURSIVE SumSeq(_)
SumSeq(s) == IF s = <<>> THEN Zero ELSE Add(Head(s), SumSeq(Tail(s)))

(***************************************************************************)
(* The grid: pp.CartGrid([nx, ny], [1, 1]) after compute_geometry().       *)
(* Cells are numbered row by row, c = 1 + i + nx*j; the faces with normal  *)
(* x come first, f = 1 + i + (nx+1)*j, then the faces with normal y.       *)
(***************************************************************************)
Grids == {<<nx, ny>> : nx \in 1..MaxN, ny \in 1..MaxN}
SquareGrids == {g \in Grids : g[1] = g[2]}

NumCells(g) == g[1] * g[2]
NumXFaces(g) == (g[1] + 1) * g[2]
NumFaces(g) == NumXFaces(g) + g[1] * (g[2] + 1)

IsXFace(g, f) == f <= NumXFaces(g)
FaceI(g, f) ==
    IF IsXFace(g, f) THEN (f - 1) % (g[1] + 1) ELSE (f - NumXFaces(g) - 1) % g[1]
FaceJ(g, f) ==
    IF IsXFace(g, f) THEN (f - 1) \div (g[1] + 1) ELSE (f - NumXFaces(g) - 1) \div g[1]

CellI(g, c) == (c - 1) % g[1]
CellJ(g, c) == (c - 1) \div g[1]
CellAt(g, i, j) == 1 + i + g[1] * j

\* sd.face_centers[:, f] as <<x, y>>
FaceCenter(g, f) ==
    IF IsXFace(g, f)
    THEN <<Rat(FaceI(g, f), g[1]), Rat(2 * FaceJ(g, f) + 1, 2 * g[2])>>
    ELSE <<Rat(2 * FaceI(g, f) + 1, 2 * g[1]), Rat(FaceJ(g, f), g[2])>>

\* sd.cell_centers[1, c]
CellCenterY(g, c) == Rat(2 * CellJ(g, c) + 1, 2 * g[2])

\* sd.nodes[1]: the y coordinates of the nodes
NodesY(g) == {Rat(j, g[2]) : j \in 0..g[2]}
AMax(S) == CHOOSE m \in S : \A x \in S : Le(x, m)
AMin(S) == CHOOSE m \in S : \A x \in S : Le(m, x)

\* sd.tags["domain_boundary_faces"][f]
IsBoundaryFace(g, f) ==
    IF IsXFace(g, f)
    THEN FaceI(g, f) = 0 \/ FaceI(g, f) = g[1]
    ELSE FaceJ(g, f) = 0 \/ FaceJ(g, f) = g[2]

\* sd.cell_faces[f, c]: +1 when the normal of f points out of c, -1 into c
CellFaces(g, f, c) ==
    LET i == FaceI(g, f)
        j == FaceJ(g, f)
    IN IF IsXFace(g, f)
       THEN IF i >= 1 /\ c = CellAt(g, i - 1, j) THEN 1
            ELSE IF i <= g[1] - 1 /\ c = CellAt(g, i, j) THEN -1
            ELSE 0
       ELSE IF j >= 1 /\ c = CellAt(g, i, j - 1) THEN 1
            ELSE IF j <= g[2] - 1 /\ c = CellAt(g, i, j) THEN -1
            ELSE 0

FaceArea(g, f) == IF IsXFace(g, f) THEN Rat(1, g[2]) ELSE Rat(1, g[1])

\* distance from a cell center to the center of one of its faces
CellFaceDist(g, f) == IF IsXFace(g, f) THEN Rat(1, 2 * g[1]) ELSE Rat(1, 2 * g[2])

\* np.nonzero: the indices where the tag is set, ascending
RECURSIVE NonZero(_, _, _)
NonZero(g, f, n) ==
    IF f > n THEN <<>>
    ELSE IF IsBoundaryFace(g, f) THEN <<f>> \o NonZero(g, f + 1, n)
    ELSE NonZero(g, f + 1, n)

(***************************************************************************)
(* The library calls of solve_problem.                                     *)
(***************************************************************************)
\* perm * np.ones(sd.num_cells): numpy broadcasting of a size-1 or size-N
\* operand; any other size raises ValueError (returned here as <<>>).
Broadcast(p, n) ==
    IF Len(p) = 1 THEN [c \in 1..n |-> FromInt(p[1])]
    ELSE IF Len(p) = n THEN [c \in 1..n |-> FromInt(p[c])]
    ELSE <<>>

\* pp.SecondOrderTensor(kxx): isotropic, one value per cell
SecondOrderTensor(kxx) == kxx

\* pp.BoundaryCondition(sd, faces, cond): every boundary face is Neumann
\* unless it is among `faces` with condition "dir"; a face off the boundary,
\* or a label count other than the face count, is rejected (<<>>).
BoundaryCondition(g, faces, cond) ==
    IF Len(faces) # Len(cond) \/ \E i \in 1..Len(faces) : ~IsBoundaryFace(g, faces[i])
    THEN <<>>
    ELSE [f \in 1..NumFaces(g) |->
            IF \E i \in 1..Len(faces) : faces[i] = f /\ cond[i] = "dir" THEN "dir"
            ELSE IF IsBoundaryFace(g, f) THEN "neu"
            ELSE ""]

\* half transmissibility of cell c at its face f: k_c * area / distance
HalfTrans(g, k, f, c) == Div(Mul(k[c], FaceArea(g, f)), CellFaceDist(g, f))

CellsOfFace(g, f) == {c \in 1..NumCells(g) : CellFaces(g, f, c) # 0}

RECURSIVE SumInvHalfTrans(_, _, _, _)
SumInvHalfTrans(g, k, f, cs) ==
    IF cs = {} THEN Zero
    ELSE LET c == CHOOSE x \in cs : TRUE
         IN Add(Inv(HalfTrans(g, k, f, c)), SumInvHalfTrans(g, k, f, cs \ {c}))

\* face transmissibility: harmonic combination of the half transmissibilities,
\* set to zero on a Neumann face
FaceTrans(g, k, bc, f) ==
    IF bc[f] = "neu" THEN Zero
    ELSE Inv(SumInvHalfTrans(g, k, f, CellsOfFace(g, f)))

\* pp.Tpfa.discretize: the matrices "flux" (faces x cells) and "bound_flux"
\* (its diagonal, one entry per face)
TpfaDiscretize(g, k, bc) ==
    LET t == [f \in 1..NumFaces(g) |-> FaceTrans(g, k, bc, f)]
        sgn(f) == LET c == CHOOSE x \in CellsOfFace(g, f) : TRUE IN CellFaces(g, f, c)
    IN [flux |-> [f \in 1..NumFaces(g) |-> [c \in 1..NumCells(g) |->
                    Mul(t[f], FromInt(CellFaces(g, f, c)))]],
        bound_flux |-> [f \in 1..NumFaces(g) |->
                    IF bc[f] = "dir" THEN Mul(Neg(t[f]), FromInt(sgn(f)))
                    ELSE IF bc[f] = "neu" THEN FromInt(sgn(f))
                    ELSE Zero]]

\* pp.Tpfa.assemble_matrix_rhs: A = div * flux, b = -div * bound_flux * bc_val,
\* with div the transpose of cell_faces
AssembleMatrixRhs(g, m, bv) ==
    LET n == NumCells(g)
        nf == NumFaces(g)
    IN [A |-> [r \in 1..n |-> [c \in 1..n |->
                SumSeq([f \in 1..nf |-> Mul(FromInt(CellFaces(g, f, r)), m.flux[f][c])])]],
        b |-> [r \in 1..n |->
                Neg(SumSeq([f \in 1..nf |->
                    Mul(FromInt(CellFaces(g, f, r)), Mul(m.bound_flux[f], bv[f]))]))]]

\* one step of Gaussian elimination on the augmented matrix M (n rows,
\* n+1 columns): column p is cleared below the pivot
EliminateColumn(M, p, n) ==
    [r \in 1..n |->
        IF r <= p \/ M[r][p] = Zero THEN M[r]
        ELSE [c \in 1..(n + 1) |->
                IF c < p \/ M[p][c] = Zero THEN M[r][c]
                ELSE Sub(M[r][c], Mul(Div(M[r][p], M[p][p]), M[p][c]))]]

\* (the matrix of each step is bound to a value before the next step reads it)
RECURSIVE Eliminate(_, _, _)
Eliminate(M, p, n) ==
    IF p > n THEN M
    ELSE CHOOSE R \in {Eliminate(EliminateColumn(Mc, p, n), p + 1, n) : Mc \in {M}} : TRUE

\* one step of back substitution on the upper triangular M: x holds the
\* unknowns r+1..n, the result also unknown r
SubstituteRow(M, r, n, x) ==
    LET s == SumSeq([c \in 1..n |->
                 IF c > r /\ M[r][c] # Zero THEN Mul(M[r][c], x[c]) ELSE Zero])
    IN [x EXCEPT ![r] = Div(Sub(M[r][n + 1], s), M[r][r])]

RECURSIVE BackSubst(_, _, _, _)
BackSubst(M, r, n, x) ==
    IF r = 0 THEN x
    ELSE CHOOSE R \in {BackSubst(M, r - 1, n, SubstituteRow(M, r, n, xc)) : xc \in {x}} : TRUE

\* sps.linalg.spsolve(A, b): the direct solve of A x = b
spsolve(A, b) ==
    LET n == Len(b)
        M == [r \in 1..n |-> [c \in 1..(n + 1) |-> IF c <= n THEN A[r][c] ELSE b[r]]]
    IN CHOOSE R \in {BackSubst(U, n, n, [r \in 1..n |-> Zero]) : U \in {Eliminate(M, 1, n)}} : TRUE

\* M @ v for a matrix given as a sequence of rows
MatVec(M, v) == [r \in 1..Len(M) |-> SumSeq([c \in 1..Len(v) |-> Mul(M[r][c], v[c])])]

\* np.isclose(a, b) on coordinates that are multiples of 1/(2n): equality
IsClose(a, b) == a = b

\* x[mask]: the entries of x where mask holds
RECURSIVE Select(_, _)
Select(x, mask) ==
    IF x = <<>> THEN <<>>
    ELSE (IF Head(mask) THEN <<Head(x)>> ELSE <<>>) \o Select(Tail(x), Tail(mask))

(***************************************************************************)
(* State.  sd is the grid the caller built; the other variables are the    *)
(* arguments and locals of the running solve_problem call (<<>> while not   *)
(* yet assigned), and memo is an earlier completed call kept for           *)
(* comparison.                                                             *)
(***************************************************************************)
VARIABLES sd, pc, variant, perm, sot, b_faces, b_face_centers, out_flow, in_flow,
          labels, bc_val, bc, mat_discr, A_tpfa, b_tpfa, cell_p_tpfa, q, ret, err, memo

VARIABLES rng, g_pc, params, seed, perm_ref, rng_entry, xy, y_train, gp_ok, phi,
          g_perm, g_err, g_memo

flow_args == <<variant, perm>>
flow_locals == <<sot, b_faces, b_face_centers, out_flow, in_flow, labels, bc_val, bc,
                 mat_discr, A_tpfa, b_tpfa, cell_p_tpfa, q, ret, err>>
flow_vars == <<sd, pc, flow_args, flow_locals, memo>>
perm_locals == <<rng_entry, xy, y_train, gp_ok, phi, g_perm, g_err>>
perm_args == <<params, seed, perm_ref>>
perm_vars == <<rng, g_pc, perm_args, perm_locals, g_memo>>
vars == <<flow_vars, perm_vars>>

NoMat == [flux |-> <<>>, bound_flux |-> <<>>]
NoRet == [p |-> <<>>, outflow |-> Zero]

(***************************************************************************)
(* The conductivities a caller passes: a scalar (a sequence of length 1),  *)
(* a per-cell array that is 1 everywhere but 2 in one cell, such an array  *)
(* doubled, or an array one entry too long.  Per-cell arrays are           *)
(* enumerated on grids of at most 4 cells: the exact elimination of larger *)
(* heterogeneous systems exceeds TLC's 32-bit integers.                    *)
(***************************************************************************)
PermInputs(g) ==
    LET n == NumCells(g)
        arrays == IF n <= 4
                  THEN {[c \in 1..n |-> IF c = h THEN 2 ELSE 1] : h \in 1..n}
                  ELSE {}
    IN {<<k>> : k \in 1..MaxK}
         \cup arrays
         \cup {[c \in 1..n |-> 2 * a[c]] : a \in arrays}
         \cup {[c \in 1..(n + 1) |-> 1]}

FlowIdle ==
    /\ pc = "idle" /\ variant = "" /\ perm = <<>>
    /\ sot = <<>> /\ b_faces = <<>> /\ b_face_centers = <<>>
    /\ out_flow = <<>> /\ in_flow = <<>> /\ labels = <<>> /\ bc_val = <<>>
    /\ bc = <<>> /\ mat_discr = NoMat /\ A_tpfa = <<>> /\ b_tpfa = <<>>
    /\ cell_p_tpfa = <<>> /\ q = <<>> /\ ret = NoRet /\ err = ""

\* the call has ended: its arguments and locals go out of scope
FlowReset ==
    /\ pc' = "idle" /\ variant' = "" /\ perm' = <<>>
    /\ sot' = <<>> /\ b_faces' = <<>> /\ b_face_centers' = <<>>
    /\ out_flow' = <<>> /\ in_flow' = <<>> /\ labels' = <<>> /\ bc_val' = <<>>
    /\ bc' = <<>> /\ mat_discr' = NoMat /\ A_tpfa' = <<>> /\ b_tpfa' = <<>>
    /\ cell_p_tpfa' = <<>> /\ q' = <<>> /\ ret' = NoRet /\ err' = ""

(***************************************************************************)
(* lab10/solve_problem.py, solve_problem, statement by statement.          *)
(***************************************************************************)
\* perm + np.ones(...) written for perm * np.ones(...)
Lab10_sot_added(g, p) ==
    LET k == Broadcast(p, NumCells(g))
    IN [c \in 1..Len(k) |-> Add(k[c], One)]
\* line 27
Lab10_sot(g, p) == SecondOrderTensor(Broadcast(p, NumCells(g)))
\* line 30
Lab10_b_faces(g) == NonZero(g, 1, NumFaces(g))
\* line 31
Lab10_b_face_centers(g, bf) == [i \in 1..Len(bf) |-> FaceCenter(g, bf[i])]
\* the mask taken on the x coordinate (row 0) instead of the y coordinate
Lab10_out_flow_on_x(g, bfc) == [i \in 1..Len(bfc) |-> IsClose(bfc[i][1], AMax(NodesY(g)))]
\* line 34
Lab10_out_flow(g, bfc) == [i \in 1..Len(bfc) |-> IsClose(bfc[i][2], AMax(NodesY(g)))]
\* line 35
Lab10_in_flow(g, bfc) == [i \in 1..Len(bfc) |-> IsClose(bfc[i][2], AMin(NodesY(g)))]
\* every boundary face left with the default Neumann label
Lab10_labels_neu(bf) == [i \in 1..Len(bf) |-> "neu"]
\* line 38
Lab10_labels(bf) == [i \in 1..Len(bf) |-> "dir"]
\* the profile y written for 1 - y
Lab10_bc_val_y(g) == [f \in 1..NumFaces(g) |-> FaceCenter(g, f)[2]]
\* line 40
Lab10_bc_val(g) == [f \in 1..NumFaces(g) |-> Sub(One, FaceCenter(g, f)[2])]
\* line 41
Lab10_bc(g, bf, lb) == BoundaryCondition(g, bf, lb)
\* lines 44-49
Lab10_discretize(g, k, b) == TpfaDiscretize(g, k, b)
\* line 50
Lab10_assemble(g, m, bv) == AssembleMatrixRhs(g, m, bv)
\* line 53
Lab10_solve(A, b) == spsolve(A, b)
\* lines 55-56
Lab10_q(m, p, bv) ==
    LET fp == MatVec(m.flux, p)
    IN [f \in 1..Len(bv) |-> Add(fp[f], Mul(m.bound_flux[f], bv[f]))]
\* line 58
Lab10_return(p, qq, bf, of) ==
    [p |-> p, outflow |-> SumSeq(Select([i \in 1..Len(bf) |-> qq[bf[i]]], of))]

(***************************************************************************)
(* lab99/solve_problem.py, solve_problem, statement by statement.          *)
(***************************************************************************)
\* line 25
Lab99_sot(g, p) == SecondOrderTensor(Broadcast(p, NumCells(g)))
\* line 28
Lab99_b_faces(g) == NonZero(g, 1, NumFaces(g))
\* line 29
Lab99_b_face_centers(g, bf) == [i \in 1..Len(bf) |-> FaceCenter(g, bf[i])]
\* the mask taken at the minimum of the node coordinates
Lab99_out_flow_at_min(g, bfc) == [i \in 1..Len(bfc) |-> IsClose(bfc[i][2], AMin(NodesY(g)))]
\* line 32
Lab99_out_flow(g, bfc) == [i \in 1..Len(bfc) |-> IsClose(bfc[i][2], AMax(NodesY(g)))]
\* line 35
Lab99_labels(bf) == [i \in 1..Len(bf) |-> "dir"]
\* line 38
Lab99_bc_val(g) == [f \in 1..NumFaces(g) |-> Sub(One, FaceCenter(g, f)[2])]
\* line 39
Lab99_bc(g, bf, lb) == BoundaryCondition(g, bf, lb)
\* lines 42-47
Lab99_discretize(g, k, b) == TpfaDiscretize(g, k, b)
\* line 48
Lab99_assemble(g, m, bv) == AssembleMatrixRhs(g, m, bv)
\* line 51
Lab99_solve(A, b) == spsolve(A, b)
\* lines 54-55
Lab99_q(m, p, bv) ==
    LET fp == MatVec(m.flux, p)
    IN [f \in 1..Len(bv) |-> Add(fp[f], Mul(m.bound_flux[f], bv[f]))]
\* line 58
Lab99_return(p, qq, bf, of) ==
    [p |-> p, outflow |-> SumSeq(Select([i \in 1..Len(bf) |-> qq[bf[i]]], of))]

(***************************************************************************)
(* The steps of a solve_problem call.                                      *)
(***************************************************************************)
Is10 == variant = "lab10"

\* the caller calls solve_problem(sd, perm) of one of the two labs
Call ==
    /\ pc = "idle"
    /\ \E v \in {"lab10", "lab99"}, p \in PermInputs(sd) :
          /\ variant' = v
          /\ perm' = p
    /\ pc' = "tensor"
    /\ UNCHANGED <<sd, flow_locals, memo, perm_vars>>

\* the permeability tensor; a size mismatch raises ValueError
Tensor ==
    /\ pc = "tensor"
    /\ LET t == IF Is10 THEN Lab10_sot(sd, perm) ELSE Lab99_sot(sd, perm)
       IN IF t = <<>>
          THEN /\ pc' = "raised"
               /\ err' = "ValueError"
               /\ sot' = sot
          ELSE /\ pc' = "b_faces"
               /\ sot' = t
               /\ err' = err
    /\ UNCHANGED <<sd, flow_args, b_faces, b_face_centers, out_flow, in_flow, labels,
                   bc_val, bc, mat_discr, A_tpfa, b_tpfa, cell_p_tpfa, q, ret, memo,
                   perm_vars>>

BFaces ==
    /\ pc = "b_faces"
    /\ b_faces' = (IF Is10 THEN Lab10_b_faces(sd) ELSE Lab99_b_faces(sd))
    /\ b_face_centers' = (IF Is10 THEN Lab10_b_face_centers(sd, b_faces')
                                  ELSE Lab99_b_face_centers(sd, b_faces'))
    /\ pc' = "masks"
    /\ UNCHANGED <<sd, flow_args, sot, out_flow, in_flow, labels, bc_val, bc, mat_discr,
                   A_tpfa, b_tpfa, cell_p_tpfa, q, ret, err, memo, perm_vars>>

\* lab10 also computes in_flow; lab99 has no such local
Masks ==
    /\ pc = "masks"
    /\ out_flow' = (IF Is10 THEN Lab10_out_flow(sd, b_face_centers)
                            ELSE Lab99_out_flow(sd, b_face_centers))
    /\ in_flow' = (IF Is10 THEN Lab10_in_flow(sd, b_face_centers) ELSE in_flow)
    /\ pc' = "bc"
    /\ UNCHANGED <<sd, flow_args, sot, b_faces, b_face_centers, labels, bc_val, bc,
                   mat_discr, A_tpfa, b_tpfa, cell_p_tpfa, q, ret, err, memo, perm_vars>>

\* labels, boundary values and the BoundaryCondition object
BoundaryConditions ==
    /\ pc = "bc"
    /\ labels' = (IF Is10 THEN Lab10_labels(b_faces) ELSE Lab99_labels(b_faces))
    /\ bc_val' = (IF Is10 THEN Lab10_bc_val(sd) ELSE Lab99_bc_val(sd))
    /\ LET b == IF Is10 THEN Lab10_bc(sd, b_faces, labels')
                        ELSE Lab99_bc(sd, b_faces, labels')
       IN IF b = <<>>
          THEN /\ pc' = "raised"
               /\ err' = "ValueError"
               /\ bc' = bc
          ELSE /\ pc' = "discretize"
               /\ bc' = b
               /\ err' = err
    /\ UNCHANGED <<sd, flow_args, sot, b_faces, b_face_centers, out_flow, in_flow,
                   mat_discr, A_tpfa, b_tpfa, cell_p_tpfa, q, ret, memo, perm_vars>>

Discretize ==
    /\ pc = "discretize"
    /\ mat_discr' = (IF Is10 THEN Lab10_discretize(sd, sot, bc)
                             ELSE Lab99_discretize(sd, sot, bc))
    /\ pc' = "assemble"
    /\ UNCHANGED <<sd, flow_args, sot, b_faces, b_face_centers, out_flow, in_flow, labels,
                   bc_val, bc, A_tpfa, b_tpfa, cell_p_tpfa, q, ret, err, memo, perm_vars>>

Assemble ==
    /\ pc = "assemble"
    /\ LET ab == IF Is10 THEN Lab10_assemble(sd, mat_discr, bc_val)
                         ELSE Lab99_assemble(sd, mat_discr, bc_val)
       IN /\ A_tpfa' = ab.A
          /\ b_tpfa' = ab.b
    /\ pc' = "solve"
    /\ UNCHANGED <<sd, flow_args, sot, b_faces, b_face_centers, out_flow, in_flow, labels,
                   bc_val, bc, mat_discr, cell_p_tpfa, q, ret, err, memo, perm_vars>>

Solve ==
    /\ pc = "solve"
    /\ cell_p_tpfa' = (IF Is10 THEN Lab10_solve(A_tpfa, b_tpfa)
                               ELSE Lab99_solve(A_tpfa, b_tpfa))
    /\ pc' = "flux"
    /\ UNCHANGED <<sd, flow_args, sot, b_faces, b_face_centers, out_flow, in_flow, labels,
                   bc_val, bc, mat_discr, A_tpfa, b_tpfa, q, ret, err, memo, perm_vars>>

Flux ==
    /\ pc = "flux"
    /\ q' = (IF Is10 THEN Lab10_q(mat_discr, cell_p_tpfa, bc_val)
                     ELSE Lab99_q(mat_discr, cell_p_tpfa, bc_val))
    /\ pc' = "return"
    /\ UNCHANGED <<sd, flow_args, sot, b_faces, b_face_centers, out_flow, in_flow, labels,
                   bc_val, bc, mat_discr, A_tpfa, b_tpfa, cell_p_tpfa, ret, err, memo,
                   perm_vars>>

Return ==
    /\ pc = "return"
    /\ ret' = (IF Is10 THEN Lab10_return(cell_p_tpfa, q, b_faces, out_flow)
                       ELSE Lab99_return(cell_p_tpfa, q, b_faces, out_flow))
    /\ pc' = "done"
    /\ UNCHANGED <<sd, flow_args, sot, b_faces, b_face_centers, out_flow, in_flow, labels,
                   bc_val, bc, mat_discr, A_tpfa, b_tpfa, cell_p_tpfa, q, err, memo,
                   perm_vars>>

\* what the caller may keep of a completed call
CallRecord ==
    [variant |-> variant, perm |-> perm, b_faces |-> b_faces, labels |-> labels,
     bc |-> bc, bc_val |-> bc_val, p |-> ret.p, outflow |-> ret.outflow]

\* the caller keeps the result and the locals go out of scope
Keep ==
    /\ pc = "done"
    /\ memo' = <<CallRecord>>
    /\ FlowReset
    /\ UNCHANGED <<sd, perm_vars>>

\* the caller drops the result (or catches the exception)
Drop ==
    /\ pc \in {"done", "raised"}
    /\ memo' = memo
    /\ FlowReset
    /\ UNCHANGED <<sd, perm_vars>>

(***************************************************************************)
(* lab10/solve_problem.py, generate_perm.                                  *)
(*                                                                         *)
(* The process-wide generator of np.random is modelled as a linear         *)
(* congruential generator on 0..RngMod-1; a draw of np.random.rand is the  *)
(* new state over RngMod, a value in [0, 1).                               *)
(***************************************************************************)
RngMod == 4
RngStates == 0..(RngMod - 1)
RngNext(s) == (5 * s + 3) % RngMod

\* "if seed:" written for "if seed is not None": the seed 0 is taken for None
np_random_seed_falsy(state, x, entropy) ==
    IF x = <<>> \/ x[1] = 0 THEN entropy ELSE x[1] % RngMod

\* the keyword misspelt in kwargs.get: the generator is always seeded with None
np_random_seed_none(state, x, entropy) == entropy

\* np.random.seed(x): x = None (here <<>>) reseeds from operating-system
\* entropy, an integer <<n>> sets the state that n determines
np_random_seed(state, x, entropy) == IF x = <<>> THEN entropy ELSE x[1] % RngMod

\* np.random.rand(m): m draws; the state after them
RECURSIVE RngAdvance(_, _)
RngAdvance(s, m) == IF m = 0 THEN s ELSE RngAdvance(RngNext(s), m - 1)
np_random_rand(s, m) == [i \in 1..m |-> Rat(RngAdvance(s, i), RngMod)]

\* the number of elements of np.arange(1, np.sqrt(n) + 1): ceil(sqrt(n))
ArangeLen(n) == CHOOSE m \in 0..n : m * m >= n /\ (m = 0 \/ (m - 1) * (m - 1) < n)

\* lines 82-83: np.array(np.meshgrid(space, space)).T.reshape(-1, 2)
Lattice(g) ==
    LET m == ArangeLen(NumCells(g))
    IN [r \in 1..(m * m) |-> <<1 + ((r - 1) \div m), 1 + ((r - 1) % m)>>]

\* gp.sample_y(xy, n_samples=1) draws with its own RandomState(0), not with
\* the process-wide generator: one fixed perturbation per lattice point and
\* length scale, added to the fitted values (in units of 1/RngMod).
SampleNoise(l, i) == ((2 * l + 3 * i) % 5) - 2
gp_sample_y(l, y) == [i \in 1..Len(y) |-> Add(y[i], Rat(SampleNoise(l, i), RngMod))]

\* np.abs left out
Lab10_abs_missing(ph) == ph
\* line 88
Lab10_abs(ph) == [i \in 1..Len(ph) |-> FAbs(ph[i])]

\* line 96: perm_ref * np.power(phi, 3) / np.square(1 - phi)
KozenyCarman(pr, ph) ==
    [i \in 1..Len(ph) |->
        Div(Mul(FromInt(pr), Mul(ph[i], Mul(ph[i], ph[i]))),
            Mul(Sub(One, ph[i]), Sub(One, ph[i])))]

\* the arguments a caller passes
LenVals == {-1, 0, 1}
PermRefVals == {0, 2}
SeedVals == {<<>>} \cup {<<n>> : n \in 0..MaxSeed}

PermReset ==
    /\ g_pc' = "idle" /\ params' = 1 /\ seed' = <<>> /\ perm_ref' = 1
    /\ rng_entry' = 0 /\ xy' = <<>> /\ y_train' = <<>> /\ gp_ok' = TRUE
    /\ phi' = <<>> /\ g_perm' = <<>> /\ g_err' = ""

\* the caller calls generate_perm(sd, params, seed=..., perm_ref=...)
GCall ==
    /\ g_pc = "idle"
    /\ \E l \in LenVals, x \in SeedVals, pr \in PermRefVals :
          /\ params' = l
          /\ seed' = x
          /\ perm_ref' = pr
    /\ rng_entry' = rng
    /\ g_pc' = "seed"
    /\ UNCHANGED <<rng, xy, y_train, gp_ok, phi, g_perm, g_err, g_memo, flow_vars>>

\* line 75
GSeed ==
    /\ g_pc = "seed"
    /\ \E e \in RngStates : rng' = np_random_seed(rng, seed, e)
    /\ g_pc' = "kernel"
    /\ UNCHANGED <<perm_args, perm_locals, g_memo, flow_vars>>

\* lines 78-79: RBF(length_scale=params) and GaussianProcessRegressor store
\* their arguments; neither checks the length scale
GKernel ==
    /\ g_pc = "kernel"
    /\ g_pc' = "lattice"
    /\ UNCHANGED <<rng, perm_args, perm_locals, g_memo, flow_vars>>

\* lines 82-83
GLattice ==
    /\ g_pc = "lattice"
    /\ xy' = Lattice(sd)
    /\ g_pc' = "fit"
    /\ UNCHANGED <<rng, perm_args, rng_entry, y_train, gp_ok, phi, g_perm, g_err,
                   g_memo, flow_vars>>

\* line 84: the targets are drawn from the process-wide generator, then the
\* regressor is fitted.  With a length scale <= 0 the kernel matrix is not
\* finite: the library either fails in its factorization or carries NaN on.
GFit ==
    /\ g_pc = "fit"
    /\ y_train' = np_random_rand(rng, Len(xy))
    /\ rng' = RngAdvance(rng, Len(xy))
    /\ \/ /\ params > 0
          /\ g_pc' = "sample" /\ gp_ok' = TRUE /\ g_err' = g_err
       \/ /\ params <= 0
          /\ g_pc' = "sample" /\ gp_ok' = FALSE /\ g_err' = g_err
       \/ /\ params <= 0
          /\ g_pc' = "raised" /\ gp_ok' = FALSE /\ g_err' = "LinAlgError"
    /\ UNCHANGED <<perm_args, rng_entry, xy, phi, g_perm, g_memo, flow_vars>>

\* lines 87-88
GSample ==
    /\ g_pc = "sample"
    /\ \/ /\ gp_ok
          /\ phi' = Lab10_abs(gp_sample_y(params, y_train))
          /\ g_pc' = "kozeny" /\ g_err' = g_err
       \/ /\ ~gp_ok
          /\ phi' = Lab10_abs([i \in 1..Len(xy) |-> NaN])
          /\ g_pc' = "kozeny" /\ g_err' = g_err
       \/ /\ ~gp_ok
          /\ phi' = phi
          /\ g_pc' = "raised" /\ g_err' = "LinAlgError"
    /\ UNCHANGED <<rng, perm_args, rng_entry, xy, y_train, gp_ok, g_perm, g_memo,
                   flow_vars>>

\* lines 93-98
GKozeny ==
    /\ g_pc = "kozeny"
    /\ g_perm' = KozenyCarman(perm_ref, phi)
    /\ g_pc' = "done"
    /\ UNCHANGED <<rng, perm_args, rng_entry, xy, y_train, gp_ok, phi, g_err, g_memo,
                   flow_vars>>

GRecord ==
    [params |-> params, seed |-> seed, perm_ref |-> perm_ref,
     phi |-> phi, perm |-> g_perm, rng_exit |-> rng]

\* the caller keeps the returned array
GKeep ==
    /\ g_pc = "done"
    /\ g_memo' = <<GRecord>>
    /\ PermReset
    /\ UNCHANGED <<rng, flow_vars>>

\* the caller drops the array (or catches the exception)
GDrop ==
    /\ g_pc \in {"done", "raised"}
    /\ g_memo' = g_memo
    /\ PermReset
    /\ UNCHANGED <<rng, flow_vars>>

\* between calls the caller itself draws from the process-wide generator
OtherRandom ==
    /\ g_pc = "idle"
    /\ rng' = RngNext(rng)
    /\ UNCHANGED <<g_pc, perm_args, perm_locals, g_memo, flow_vars>>

(***************************************************************************)
(* Specifications: a caller that builds a grid and then calls              *)
(* solve_problem any number of times (SpecFlow), or generate_perm any      *)
(* number of times (SpecPerm).                                             *)
(***************************************************************************)
PermIdle ==
    /\ g_pc = "idle" /\ params = 1 /\ seed = <<>> /\ perm_ref = 1
    /\ rng_entry = 0 /\ xy = <<>> /\ y_train = <<>> /\ gp_ok = TRUE
    /\ phi = <<>> /\ g_perm = <<>> /\ g_err = ""

InitFlow ==
    /\ sd \in SquareGrids
    /\ FlowIdle /\ memo = <<>>
    /\ PermIdle /\ g_memo = <<>> /\ rng = 0

InitPerm ==
    /\ sd \in Grids
    /\ FlowIdle /\ memo = <<>>
    /\ PermIdle /\ g_memo = <<>> /\ rng \in RngStates

NextFlow ==
    \/ Call \/ Tensor \/ BFaces \/ Masks \/ BoundaryConditions \/ Discretize
    \/ Assemble \/ Solve \/ Flux \/ Return \/ Keep \/ Drop

NextPerm ==
    \/ GCall \/ GSeed \/ GKernel \/ GLattice \/ GFit \/ GSample \/ GKozeny
    \/ GKeep \/ GDrop \/ OtherRandom

SpecFlow == InitFlow /\ [][NextFlow]_vars

SpecPerm == InitPerm /\ [][NextPerm]_vars

(***************************************************************************)
(* Properties of solve_problem (checked under SpecFlow).                   *)
(***************************************************************************)
UniformPerm == \A i \in 1..Len(perm) : perm[i] = perm[1]
IsSquare == sd[1] = sd[2]
HasMemo == memo # <<>>
BoundaryFaceSet == {f \in 1..NumFaces(sd) : IsBoundaryFace(sd, f)}

\* C1: on an n x n grid with a uniform conductivity k > 0 the returned
\* pressure of every cell is 1 - y_c, y_c the y coordinate of the cell center.
C1_LinearProfileExact ==
    (pc = "done" /\ IsSquare /\ UniformPerm) =>
        /\ Len(ret.p) = NumCells(sd)
        /\ \A c \in 1..NumCells(sd) : ret.p[c] = Sub(One, CellCenterY(sd, c))

C1_Witness ==
    /\ pc = "done" /\ sd = <<2, 2>> /\ perm = <<3>>
    /\ ret.p = <<Rat(3, 4), Rat(3, 4), Rat(1, 4), Rat(1, 4)>>

Doubled(p2, p1) == Len(p2) = Len(p1) /\ \A i \in 1..Len(p1) : p2[i] = 2 * p1[i]

C3_ScalingInK ==
    (pc = "done" /\ HasMemo /\ memo[1].variant = variant /\ Doubled(perm, memo[1].perm)) =>
        /\ ret.p = memo[1].p
        /\ FAbs(ret.outflow) = Mul(FromInt(2), FAbs(memo[1].outflow))

C3_Witness ==
    /\ pc = "done" /\ HasMemo /\ memo[1].variant = variant
    /\ sd = <<2, 2>>
    /\ memo[1].perm = <<2, 1, 1, 1>> /\ perm = <<4, 2, 2, 2>>
    /\ ret.outflow # Zero

\* C5: once the boundary condition is built, there are as many labels as
\* tagged boundary faces, every boundary face (top, bottom, side) has exactly
\* one label, 'dir', and the value 1 - y of its own center, no internal face
\* has a label, and building the boundary condition never fails.
C5_DirichletOnEveryBoundaryFace ==
    /\ pc \in {"discretize", "assemble", "solve", "flux", "return", "done"} =>
          /\ Len(labels) = Cardinality(BoundaryFaceSet)
          /\ \A f \in BoundaryFaceSet :
                /\ Cardinality({i \in 1..Len(b_faces) : b_faces[i] = f}) = 1
                /\ \A i \in 1..Len(b_faces) : b_faces[i] = f => labels[i] = "dir"
                /\ bc[f] = "dir"
                /\ bc_val[f] = Sub(One, FaceCenter(sd, f)[2])
          /\ \A f \in (1..NumFaces(sd)) \ BoundaryFaceSet :
                /\ \A i \in 1..Len(b_faces) : b_faces[i] # f
                /\ bc[f] = ""
    /\ pc = "raised" => sot = <<>>

C5_Witness ==
    /\ pc = "discretize" /\ sd = <<2, 2>>
    /\ Len(labels) = 8
    /\ \E i \in 1..Len(b_faces) :
          /\ IsXFace(sd, b_faces[i])
          /\ labels[i] = "dir"
          /\ bc_val[b_faces[i]] = Rat(1, 4)

\* C10: lab10 and lab99 are equivalent: on the same grid and conductivity
\* they build the same boundary faces, labels and boundary values and return
\* the same pressure and outflow, and they fail on the same inputs; the
\* in_flow mask of lab10 changes nothing.
C10_VariantsEquivalent ==
    /\ (pc = "done" /\ HasMemo /\ memo[1].variant # variant /\ memo[1].perm = perm) =>
          /\ b_faces = memo[1].b_faces
          /\ labels = memo[1].labels
          /\ bc = memo[1].bc
          /\ bc_val = memo[1].bc_val
          /\ ret.p = memo[1].p
          /\ ret.outflow = memo[1].outflow
    /\ pc = "raised" => Len(perm) \notin {1, NumCells(sd)}
    /\ pc = "done" => Len(perm) \in {1, NumCells(sd)}

C10_Witness ==
    /\ pc = "done" /\ HasMemo
    /\ variant = "lab99" /\ memo[1].variant = "lab10"
    /\ sd = <<2, 2>> /\ perm = <<1, 1, 2, 1>> /\ memo[1].perm = perm
    /\ in_flow = <<>>
    /\ ret.outflow # Zero

(***************************************************************************)
(* Properties of generate_perm (checked under SpecPerm).                   *)
(***************************************************************************)
GHasMemo == g_memo # <<>>
Seeded(x) == x # <<>>
SameArgs == g_memo[1].params = params /\ g_memo[1].perm_ref = perm_ref

PhiDiffersBelowOne(a, b) ==
    \E i \in 1..Len(a) : a[i] # b[i] /\ Lt(a[i], One) /\ Lt(b[i], One)

C6_AsStated == g_pc = "done" => rng = rng_entry

\* C6 amended: generate_perm overwrites the process-wide generator state at
\* entry and leaves it advanced by one draw per lattice point; with a
\* supplied seed the state on return is fixed by the seed and the grid,
\* whatever it was before the call (so a later call, which reseeds again,
\* does not depend on it).
C6_StateOverwritten ==
    /\ (g_pc \in {"kernel", "lattice", "fit"} /\ Seeded(seed)) => rng = seed[1] % RngMod
    /\ (g_pc = "done" /\ Seeded(seed)) =>
          /\ rng = RngAdvance(seed[1] % RngMod, Len(xy))
          /\ (GHasMemo /\ g_memo[1].seed = seed) => rng = g_memo[1].rng_exit

C6_Witness ==
    /\ g_pc = "done" /\ seed = <<1>>
    /\ rng # rng_entry
    /\ GHasMemo /\ g_memo[1].seed = seed
    /\ rng_entry # g_memo[1].rng_exit

\* C7: the returned array has one value per grid cell.
C7_LengthIsCellCount == g_pc = "done" => Len(g_perm) = NumCells(sd)

\* perm_ref * phi^3 / (1 - phi)^2 for a finite phi # 1
KozenyValue(pr, x) ==
    Rat(pr * x[1] * x[1] * x[1], x[2] * (x[2] - x[1]) * (x[2] - x[1]))

BelowOneFiniteNonNegative ==
    \A i \in 1..Len(phi) :
        Lt(phi[i], One) =>
            /\ IsFinite(g_perm[i])
            /\ Le(Zero, g_perm[i])
            /\ g_perm[i] = KozenyValue(perm_ref, phi[i])

\* C8 as stated: values for porosity below 1 are finite, non-negative and
\* equal to the Kozeny-Carman value; a porosity of exactly 1 is caught (no
\* array holding such a point is returned).
C8_AsStated ==
    g_pc = "done" =>
        /\ BelowOneFiniteNonNegative
        /\ \A i \in 1..Len(phi) : phi[i] # One

\* C8 amended: values for porosity below 1 are finite, non-negative and
\* equal to the Kozeny-Carman value; a porosity of exactly 1 is not caught:
\* the array is returned with +inf at that point (NaN when perm_ref = 0).
C8_KozenyValues ==
    g_pc = "done" =>
        /\ Len(g_perm) = Len(phi)
        /\ BelowOneFiniteNonNegative
        /\ \A i \in 1..Len(phi) :
              phi[i] = One => g_perm[i] = (IF perm_ref = 0 THEN NaN ELSE <<1, 0>>)

C8_Witness ==
    /\ g_pc = "done" /\ perm_ref = 2
    /\ \E i \in 1..Len(phi) : phi[i] = One /\ g_perm[i] = <<1, 0>>
    /\ \E i \in 1..Len(phi) : Lt(phi[i], One) /\ Lt(Zero, g_perm[i])

\* C9: a call with a correlation length <= 0 fails with a parameter-range
\* error at the call boundary: no statement of the body runs, the generator
\* is untouched and no array is returned.
C9_RangeErrorAtEntry ==
    (g_pc # "idle" /\ params <= 0) =>
        /\ g_pc \in {"seed", "raised"}
        /\ g_pc = "raised" => (g_err = "ParameterRange" /\ rng = rng_entry)

====
